---- MODULE Spec2Model ----
(***************************************************************************)
(* The CHIP-8 interpreter of src/src/chip8.rs (struct Chip8: new, load,    *)
(* tick = fetch + execute, timers) driven the way src/src/main.rs drives a *)
(* machine: one load after construction, key events between instructions, *)
(* instruction steps, timer ticks.                                         *)
(***************************************************************************)
EXTENDS Integers, Sequences, FiniteSets, TLC

\* ---------------------------------------------------------------- constants
MEMORY_SIZE == 4096
REGISTER_COUNT == 16
STACK_SIZE == 16
START_ADDR == 512
SCREEN_WIDTH == 64
SCREEN_HEIGHT == 32
FRAME_RATE == 60
KEYPAD_SIZE == 16

FONT_SPRITES ==
  << 240, 144, 144, 144, 240,
      32,  96,  32,  32, 112,
     240,  16, 240, 128, 240,
     240,  16, 240,  16, 240,
     144, 144, 240,  16,  16,
     240, 128, 240,  16, 240,
     240, 128, 240, 144, 240,
     240,  16,  32,  64,  64,
     240, 144, 240, 144, 240,
     240, 144, 240,  16, 240,
     240, 144, 240, 144, 144,
     224, 144, 224, 144, 224,
     240, 128, 128, 128, 240,
     224, 144, 144, 144, 224,
     240, 128, 240, 128, 240,
     240, 128, 240, 128, 128 >>

\* ------------------------------------------------------------------- bounds
\* at most this many keypad keys are held down at the same time
MaxHeld == 2

\* the games draw sprites of at most this many rows
MaxRows == 2

\* the frame loop is followed for this many frames
MaxFrames == 4

\* keys the input collaborator presses and releases
Keys == {3, 10}

\* values rand::random::<u8>() is drawn from
RandBytes == {0, 1, 255}

VARIABLES mem, v, ir, pc, dt, st, stack, screen, keypad,
          phase, op, ret, fault, prev,
          frame_time, at, frames, ticks

vars == << mem, v, ir, pc, dt, st, stack, screen, keypad,
           phase, op, ret, fault, prev,
           frame_time, at, frames, ticks >>

\* main's frame loop: the budget left, the place in the loop ("loop": before
\* frame_time += FRAME_TIME, "while": at the test of while frame_time > 0), the frames
\* begun and the timer ticks made
sched == << frame_time, at, frames, ticks >>

\* ------------------------------------------------------------ u8 arithmetic
Bit(b, i) == (b \div (2 ^ i)) % 2

BitAnd(a, b) ==
  LET f[i \in 0..8] == IF i = 8 THEN 0 ELSE (2 ^ i) * (Bit(a, i) * Bit(b, i)) + f[i + 1]
  IN f[0]

BitOr(a, b) ==
  LET f[i \in 0..8] ==
        IF i = 8 THEN 0
        ELSE (2 ^ i) * (IF Bit(a, i) + Bit(b, i) > 0 THEN 1 ELSE 0) + f[i + 1]
  IN f[0]

BitXor(a, b) ==
  LET f[i \in 0..8] ==
        IF i = 8 THEN 0 ELSE (2 ^ i) * ((Bit(a, i) + Bit(b, i)) % 2) + f[i + 1]
  IN f[0]

\* u8::overflowing_add
OverflowingAdd(a, b) == [res |-> (a + b) % 256, overflow |-> a + b > 255]

\* u8::overflowing_sub
OverflowingSub(a, b) == [res |-> (a - b + 256) % 256, overflow |-> a < b]

\* u8::saturating_sub
SaturatingSub(a, b) == IF a > b THEN a - b ELSE 0

BoolToU8(b) == IF b THEN 1 ELSE 0

\* ------------------------------------------------------------------ decoding
nn(o) == o % 256

nnn(o) == o % 4096

Nib1(o) == o \div 4096

Nib2(o) == (o \div 256) % 16

Nib3(o) == (o \div 16) % 16

Nib4(o) == o % 16

\* ------------------------------------------------------- the machine, as a record
Self == [mem |-> mem, v |-> v, ir |-> ir, pc |-> pc, dt |-> dt, st |-> st,
         stack |-> stack, screen |-> screen, keypad |-> keypad]

\* Chip8::new
New ==
  [mem    |-> [a \in 0..(MEMORY_SIZE - 1) |->
                 IF a < Len(FONT_SPRITES) THEN FONT_SPRITES[a + 1] ELSE 0],
   v      |-> [i \in 0..(REGISTER_COUNT - 1) |-> 0],
   stack  |-> [i \in 1..STACK_SIZE |-> 0],
   keypad |-> [k \in 0..(KEYPAD_SIZE - 1) |-> FALSE],
   screen |-> [i \in 0..(SCREEN_WIDTH * SCREEN_HEIGHT - 1) |-> FALSE],
   ir     |-> 0,
   pc     |-> START_ADDR,
   dt     |-> 0,
   st     |-> 0]

\* an operation that returned: the machine after it and the value returned
Ok(c, cost) == [c |-> c, cost |-> cost, fault |-> "none"]

\* an operation that panicked: the machine as the panic left it, and the panic
Panic(c, why) == [c |-> c, cost |-> 0, fault |-> why]

\* --------------------------------------------------------------------- fetch
\* fetch combining the two bytes little-endian
Fetch_LittleEndian(c) ==
  IF c.pc >= MEMORY_SIZE \/ c.pc + 1 >= MEMORY_SIZE
  THEN [c |-> c, op |-> -1, fault |-> "index out of bounds"]
  ELSE [c     |-> [c EXCEPT !.pc = c.pc + 2],
        op    |-> c.mem[c.pc + 1] * 256 + c.mem[c.pc],
        fault |-> "none"]

\* Chip8::fetch: the big-endian word at pc; pc advances by 2 before execution
Fetch(c) ==
  IF c.pc >= MEMORY_SIZE \/ c.pc + 1 >= MEMORY_SIZE
  THEN [c |-> c, op |-> -1, fault |-> "index out of bounds"]
  ELSE [c     |-> [c EXCEPT !.pc = c.pc + 2],
        op    |-> c.mem[c.pc] * 256 + c.mem[c.pc + 1],
        fault |-> "none"]

\* -------------------------------------------------------------- instructions
\* 00E0 cls
Cls(c) == Ok([c EXCEPT !.screen = [i \in DOMAIN c.screen |-> FALSE]], 109)

\* 00EE ret: self.pc = self.stack.pop().unwrap()
Ret(c) ==
  IF Len(c.stack) = 0
  THEN Panic(c, "unwrap on None")
  ELSE Ok([c EXCEPT !.pc = c.stack[Len(c.stack)],
                    !.stack = SubSeq(c.stack, 1, Len(c.stack) - 1)], 105)

\* 1nnn jp
Jp(c, o) == Ok([c EXCEPT !.pc = nnn(o)], 105)

\* call pushing the address of the call itself, not of the word after it
Call_PushesCallAddress(c, o) ==
  Ok([c EXCEPT !.stack = Append(c.stack, c.pc - 2), !.pc = nnn(o)], 105)

\* 2nnn call
Call(c, o) == Ok([c EXCEPT !.stack = Append(c.stack, c.pc), !.pc = nnn(o)], 105)

\* se vx nn charging a taken skip for the word it skips
SeVxNn_TakenCostsTwice(c, x, o) ==
  IF c.v[x] = nn(o) THEN Ok([c EXCEPT !.pc = c.pc + 2], 110) ELSE Ok(c, 55)

\* 3xnn se vx nn
SeVxNn(c, x, o) == Ok(IF c.v[x] = nn(o) THEN [c EXCEPT !.pc = c.pc + 2] ELSE c, 55)

\* sne vx nn skipping one byte instead of one word
SneVxNn_SkipsOneByte(c, x, o) ==
  Ok(IF c.v[x] # nn(o) THEN [c EXCEPT !.pc = c.pc + 1] ELSE c, 55)

\* 4xnn sne vx nn
SneVxNn(c, x, o) == Ok(IF c.v[x] # nn(o) THEN [c EXCEPT !.pc = c.pc + 2] ELSE c, 55)

\* 5xy_ se vx vy
SeVxVy(c, x, y) == Ok(IF c.v[x] = c.v[y] THEN [c EXCEPT !.pc = c.pc + 2] ELSE c, 73)

\* 6xnn ld vx nn
LdVxNn(c, x, o) == Ok([c EXCEPT !.v[x] = nn(o)], 27)

\* 7xnn add vx byte
AddVxNn(c, x, o) == Ok([c EXCEPT !.v[x] = (c.v[x] + nn(o)) % 256], 45)

\* 8xy0 set vx vy
SetVxVy(c, x, y) == Ok([c EXCEPT !.v[x] = c.v[y]], 200)

\* or vx vy without the reset of VF
OrVxVy_NoFlagReset(c, x, y) == Ok([c EXCEPT !.v[x] = BitOr(c.v[x], c.v[y])], 200)

\* 8xy1 or vx vy
OrVxVy(c, x, y) == Ok([c EXCEPT !.v[x] = BitOr(c.v[x], c.v[y]), !.v[15] = 0], 200)

\* 8xy2 and vx vy
AndVxVy(c, x, y) == Ok([c EXCEPT !.v[x] = BitAnd(c.v[x], c.v[y]), !.v[15] = 0], 200)

\* 8xy3 xor vx vy
XorVxVy(c, x, y) == Ok([c EXCEPT !.v[x] = BitXor(c.v[x], c.v[y]), !.v[15] = 0], 200)

\* 8xy4 with the flag stored before the sum, so that the sum overwrites it when x = F
AddVxVy_FlagFirst(c, x, y) ==
  LET r == OverflowingAdd(c.v[x], c.v[y])
  IN Ok([c EXCEPT !.v[15] = BoolToU8(r.overflow), !.v[x] = r.res], 200)

\* 8xy4 add vx vy
AddVxVy(c, x, y) ==
  LET r == OverflowingAdd(c.v[x], c.v[y])
  IN Ok([c EXCEPT !.v[x] = r.res, !.v[15] = BoolToU8(r.overflow)], 200)

\* 8xy5 with the flag set on Vx > Vy instead of Vx >= Vy
SubVxVy_StrictFlag(c, x, y) ==
  LET r == OverflowingSub(c.v[x], c.v[y])
  IN Ok([c EXCEPT !.v[x] = r.res, !.v[15] = BoolToU8(c.v[x] > c.v[y])], 200)

\* 8xy5 sub vx vy
SubVxVy(c, x, y) ==
  LET r == OverflowingSub(c.v[x], c.v[y])
  IN Ok([c EXCEPT !.v[x] = r.res, !.v[15] = BoolToU8(~r.overflow)], 200)

\* 8xy6 shifting Vx in place, without the copy from Vy
ShrVx_InPlace(c, x, y) ==
  LET lsb == BitAnd(c.v[x], 1)
  IN Ok([c EXCEPT !.v[x] = c.v[x] \div 2, !.v[15] = lsb], 200)

\* 8xy6 shr vx
ShrVx(c, x, y) ==
  LET c1  == [c EXCEPT !.v[x] = c.v[y]]
      lsb == BitAnd(c1.v[x], 1)
  IN Ok([c1 EXCEPT !.v[x] = c1.v[x] \div 2, !.v[15] = lsb], 200)

\* 8xy7 sub vx vy (vy - vx)
SubnVxVy(c, x, y) ==
  LET r == OverflowingSub(c.v[y], c.v[x])
  IN Ok([c EXCEPT !.v[x] = r.res, !.v[15] = BoolToU8(~r.overflow)], 200)

\* 8xyE shl vx
ShlVx(c, x, y) ==
  LET c1  == [c EXCEPT !.v[x] = c.v[y]]
      msb == BitAnd(c1.v[x] \div 128, 1)
  IN Ok([c1 EXCEPT !.v[x] = (c1.v[x] * 2) % 256, !.v[15] = msb], 200)

\* 9xy0 sne vx, vy
SneVxVy(c, x, y) == Ok(IF c.v[x] # c.v[y] THEN [c EXCEPT !.pc = c.pc + 2] ELSE c, 73)

\* Annn ld i nnn
LdINnn(c, o) == Ok([c EXCEPT !.ir = nnn(o)], 55)

\* Bnnn jp v0 nnn
JpV0Nnn(c, o) == Ok([c EXCEPT !.pc = c.v[0] + nnn(o)], 105)

\* Cxnn rnd vx nn; rnd is the value of rand::random::<u8>()
RndVxNn(c, x, o, rnd) == Ok([c EXCEPT !.v[x] = BitAnd(rnd, nn(o))], 164)

\* Dxyn setting the cell of a set sprite bit instead of toggling it
DrwPixel_Set(acc, x_coord, y_coord, x_line, y_line) ==
  LET idx == (x_coord + x_line) + SCREEN_WIDTH * (y_coord + y_line)
  IN IF idx < SCREEN_WIDTH * SCREEN_HEIGHT
     THEN [screen  |-> [acc.screen EXCEPT ![idx] = TRUE],
           flipped |-> acc.flipped \/ acc.screen[idx]]
     ELSE acc

\* Dxyn, innermost block: one set sprite bit at (x_line, y_line)
DrwPixel(acc, x_coord, y_coord, x_line, y_line) ==
  LET x   == x_coord + x_line
      y   == y_coord + y_line
      idx == x + SCREEN_WIDTH * y
  IN IF idx < SCREEN_WIDTH * SCREEN_HEIGHT      \* self.screen.get_mut(idx) is Some
     THEN [screen  |-> [acc.screen EXCEPT ![idx] = ~@],
           flipped |-> acc.flipped \/ acc.screen[idx]]
     ELSE acc

\* Dxyn, inner loop: for x_line in 0..8, the bits of one sprite byte, msb first
RECURSIVE DrwLine(_, _, _, _, _, _)
DrwLine(acc, pixels, x_coord, y_coord, y_line, x_line) ==
  IF x_line = 8 THEN acc
  ELSE DrwLine(IF Bit(pixels, 7 - x_line) # 0
               THEN DrwPixel(acc, x_coord, y_coord, x_line, y_line)
               ELSE acc,
               pixels, x_coord, y_coord, y_line, x_line + 1)

\* Dxyn, outer loop: for y_line in 0..n, reading the sprite byte at ir + y_line
RECURSIVE DrwRows(_, _, _, _, _, _)
DrwRows(c, acc, x_coord, y_coord, n, y_line) ==
  IF y_line = n THEN [acc |-> acc, fault |-> "none"]
  ELSE LET addr == c.ir + y_line
       IN IF addr >= MEMORY_SIZE
          THEN [acc |-> acc, fault |-> "index out of bounds"]
          ELSE DrwRows(c, DrwLine(acc, c.mem[addr], x_coord, y_coord, y_line, 0),
                       x_coord, y_coord, n, y_line + 1)

\* Dxyn drw vx vy n
DrwVxVyN(c, x, y, n) ==
  LET x_coord == c.v[x] % SCREEN_WIDTH
      y_coord == c.v[y] % SCREEN_HEIGHT
      r == DrwRows(c, [screen |-> c.screen, flipped |-> FALSE], x_coord, y_coord, n, 0)
  IN IF r.fault # "none"
     THEN Panic([c EXCEPT !.screen = r.acc.screen], r.fault)
     ELSE Ok([c EXCEPT !.screen = r.acc.screen, !.v[15] = BoolToU8(r.acc.flipped)], 22734)

\* Ex9E skp vx
SkpVx(c, x) ==
  IF c.v[x] >= KEYPAD_SIZE THEN Panic(c, "index out of bounds")
  ELSE Ok(IF c.keypad[c.v[x]] THEN [c EXCEPT !.pc = c.pc + 2] ELSE c, 73)

\* ExA1 sknp vx
SknpVx(c, x) ==
  IF c.v[x] >= KEYPAD_SIZE THEN Panic(c, "index out of bounds")
  ELSE Ok(IF ~c.keypad[c.v[x]] THEN [c EXCEPT !.pc = c.pc + 2] ELSE c, 73)

\* ld vx dt that stops the delay timer it reads
LdVxDt_StopsTimer(c, x) == Ok([c EXCEPT !.v[x] = c.dt, !.dt = 0], 45)

\* Fx07 ld vx dt
LdVxDt(c, x) == Ok([c EXCEPT !.v[x] = c.dt], 45)

\* Fx0A scanning the keypad from F down to 0
LdVxK_ScanDown(c, x) ==
  LET down == {i \in DOMAIN c.keypad : c.keypad[i]}
  IN IF down # {}
     THEN Ok([c EXCEPT !.v[x] = CHOOSE i \in down : \A j \in down : i >= j], 100)
     ELSE Ok([c EXCEPT !.pc = c.pc - 2], 100)

\* ld vx k whose retry with no key pressed costs nothing
LdVxK_RetryIsFree(c, x) ==
  LET down == {i \in DOMAIN c.keypad : c.keypad[i]}
  IN IF down # {}
     THEN Ok([c EXCEPT !.v[x] = CHOOSE i \in down : \A j \in down : i <= j], 100)
     ELSE Ok([c EXCEPT !.pc = c.pc - 2], 0)

\* Fx0A ld vx k: the first pressed key in 0..15, or pc rewound by 2
LdVxK(c, x) ==
  LET down == {i \in DOMAIN c.keypad : c.keypad[i]}
  IN IF down # {}
     THEN Ok([c EXCEPT !.v[x] = CHOOSE i \in down : \A j \in down : i <= j], 100)
     ELSE Ok([c EXCEPT !.pc = c.pc - 2], 100)

\* Fx15 ld dt vx
LdDtVx(c, x) == Ok([c EXCEPT !.dt = c.v[x]], 45)

\* Fx18 ld st vx
LdStVx(c, x) == Ok([c EXCEPT !.st = c.v[x]], 45)

\* Fx1E add ir vx
AddIrVx(c, x) == Ok([c EXCEPT !.ir = (c.ir + c.v[x]) % 65536], 86)

\* Fx29 ld f vx
LdFVx(c, x) == Ok([c EXCEPT !.ir = c.v[x] * 5], 91)

\* Fx33 with the tens digit left as Vx / 10, not reduced mod 10
LdBVx_TensNotReduced(c, x) ==
  LET vx == c.v[x]
  IN IF c.ir + 2 >= MEMORY_SIZE THEN Panic(c, "index out of bounds")
     ELSE Ok([c EXCEPT !.mem[c.ir]     = (vx \div 100) % 10,
                       !.mem[c.ir + 1] = vx \div 10,
                       !.mem[c.ir + 2] = vx % 10], 927)

\* Fx33 ld b vx: three stores, each bounds-checked in turn
LdBVx(c, x) ==
  LET vx == c.v[x]
      c1 == [c  EXCEPT !.mem[c.ir]     = (vx \div 100) % 10]
      c2 == [c1 EXCEPT !.mem[c.ir + 1] = (vx \div 10) % 10]
      c3 == [c2 EXCEPT !.mem[c.ir + 2] = vx % 10]
  IN IF c.ir >= MEMORY_SIZE THEN Panic(c, "index out of bounds")
     ELSE IF c.ir + 1 >= MEMORY_SIZE THEN Panic(c1, "index out of bounds")
     ELSE IF c.ir + 2 >= MEMORY_SIZE THEN Panic(c2, "index out of bounds")
     ELSE Ok(c3, 927)

\* Fx55 leaving the index register after the last byte stored (ir += x + 1)
LdIrVx_IrPastBlock(c, x) ==
  LET stored == [a \in DOMAIN c.mem |->
                   IF a >= c.ir /\ a <= c.ir + x THEN c.v[a - c.ir] ELSE c.mem[a]]
  IN IF c.ir + x >= MEMORY_SIZE THEN Panic(c, "index out of bounds")
     ELSE Ok([c EXCEPT !.mem = stored, !.ir = c.ir + x + 1], 605)

\* Fx55 ld [i] vx: for offset in 0..=x { mem[ir + offset] = v[offset] }; ir += 1
RECURSIVE LdIrVxLoop(_, _, _)
LdIrVxLoop(c, x, offset) ==
  IF offset > x THEN Ok([c EXCEPT !.ir = c.ir + 1], 605)
  ELSE IF c.ir + offset >= MEMORY_SIZE THEN Panic(c, "index out of bounds")
  ELSE LdIrVxLoop([c EXCEPT !.mem[c.ir + offset] = c.v[offset]], x, offset + 1)

LdIrVx(c, x) == LdIrVxLoop(c, x, 0)

\* Fx65 ld vx [i]: for offset in 0..=x { v[offset] = mem[ir + offset] }; ir += 1
RECURSIVE LdVxIrLoop(_, _, _)
LdVxIrLoop(c, x, offset) ==
  IF offset > x THEN Ok([c EXCEPT !.ir = c.ir + 1], 605)
  ELSE IF c.ir + offset >= MEMORY_SIZE THEN Panic(c, "index out of bounds")
  ELSE LdVxIrLoop([c EXCEPT !.v[offset] = c.mem[c.ir + offset]], x, offset + 1)

LdVxIr(c, x) == LdVxIrLoop(c, x, 0)

\* ------------------------------------------------------------------- execute
\* Chip8::execute: the match on the four nibbles of op
Execute(c, o, rnd) ==
  LET n1 == Nib1(o)
      x  == Nib2(o)
      y  == Nib3(o)
      n  == Nib4(o)
  IN CASE n1 = 0 /\ x = 0 /\ y = 14 /\ n = 0   -> Cls(c)
       [] n1 = 0 /\ x = 0 /\ y = 14 /\ n = 14  -> Ret(c)
       [] n1 = 1                               -> Jp(c, o)
       [] n1 = 2                               -> Call(c, o)
       [] n1 = 3                               -> SeVxNn(c, x, o)
       [] n1 = 4                               -> SneVxNn(c, x, o)
       [] n1 = 5                               -> SeVxVy(c, x, y)
       [] n1 = 6                               -> LdVxNn(c, x, o)
       [] n1 = 7                               -> AddVxNn(c, x, o)
       [] n1 = 8 /\ n = 0                      -> SetVxVy(c, x, y)
       [] n1 = 8 /\ n = 1                      -> OrVxVy(c, x, y)
       [] n1 = 8 /\ n = 2                      -> AndVxVy(c, x, y)
       [] n1 = 8 /\ n = 3                      -> XorVxVy(c, x, y)
       [] n1 = 8 /\ n = 4                      -> AddVxVy(c, x, y)
       [] n1 = 8 /\ n = 5                      -> SubVxVy(c, x, y)
       [] n1 = 8 /\ n = 6                      -> ShrVx(c, x, y)
       [] n1 = 8 /\ n = 7                      -> SubnVxVy(c, x, y)
       [] n1 = 8 /\ n = 14                     -> ShlVx(c, x, y)
       [] n1 = 9 /\ n = 0                      -> SneVxVy(c, x, y)
       [] n1 = 10                              -> LdINnn(c, o)
       [] n1 = 11                              -> JpV0Nnn(c, o)
       [] n1 = 12                              -> RndVxNn(c, x, o, rnd)
       [] n1 = 13                              -> DrwVxVyN(c, x, y, n)
       [] n1 = 14 /\ y = 9 /\ n = 14           -> SkpVx(c, x)
       [] n1 = 14 /\ y = 10 /\ n = 1           -> SknpVx(c, x)
       [] n1 = 15 /\ y = 0 /\ n = 7            -> LdVxDt(c, x)
       [] n1 = 15 /\ y = 0 /\ n = 10           -> LdVxK(c, x)
       [] n1 = 15 /\ y = 1 /\ n = 5            -> LdDtVx(c, x)
       [] n1 = 15 /\ y = 1 /\ n = 8            -> LdStVx(c, x)
       [] n1 = 15 /\ y = 1 /\ n = 14           -> AddIrVx(c, x)
       [] n1 = 15 /\ y = 2 /\ n = 9            -> LdFVx(c, x)
       [] n1 = 15 /\ y = 3 /\ n = 3            -> LdBVx(c, x)
       [] n1 = 15 /\ y = 5 /\ n = 5            -> LdIrVx(c, x)
       [] n1 = 15 /\ y = 6 /\ n = 5            -> LdVxIr(c, x)
       [] OTHER                                -> Panic(c, "unimplemented opcode")

\* Chip8::tick: fetch, then execute
TickResult(c, rnd) ==
  LET f == Fetch(c)
  IN IF f.fault # "none" THEN Panic(f.c, f.fault) ELSE Execute(f.c, f.op, rnd)

\* ------------------------------------------- main.rs, the inline interpreter
\* main's Dxyn, innermost block: column and row are each reduced modulo the screen
MainDrwPixel(acc, x_coord, y_coord, x_line, y_line) ==
  LET x   == (x_coord + x_line) % SCREEN_WIDTH
      y   == (y_coord + y_line) % SCREEN_HEIGHT
      idx == x + SCREEN_WIDTH * y
  IN [screen  |-> [acc.screen EXCEPT ![idx] = ~@],
      flipped |-> acc.flipped \/ acc.screen[idx]]

\* main's Dxyn, inner loop: for x_line in 0..8
RECURSIVE MainDrwLine(_, _, _, _, _, _)
MainDrwLine(acc, pixels, x_coord, y_coord, y_line, x_line) ==
  IF x_line = 8 THEN acc
  ELSE MainDrwLine(IF Bit(pixels, 7 - x_line) # 0
                   THEN MainDrwPixel(acc, x_coord, y_coord, x_line, y_line)
                   ELSE acc,
                   pixels, x_coord, y_coord, y_line, x_line + 1)

\* main's Dxyn, outer loop: for y_line in 0..n, reading the sprite byte at ir + y_line
RECURSIVE MainDrwRows(_, _, _, _, _, _)
MainDrwRows(c, acc, x_coord, y_coord, n, y_line) ==
  IF y_line = n THEN [acc |-> acc, fault |-> "none"]
  ELSE LET addr == c.ir + y_line
       IN IF addr >= MEMORY_SIZE
          THEN [acc |-> acc, fault |-> "index out of bounds"]
          ELSE MainDrwRows(c, MainDrwLine(acc, c.mem[addr], x_coord, y_coord, y_line, 0),
                           x_coord, y_coord, n, y_line + 1)

\* main's Dxyn: x_coord and y_coord are Vx and Vy as they are
MainDrwVxVyN(c, x, y, n) ==
  LET r == MainDrwRows(c, [screen |-> c.screen, flipped |-> FALSE], c.v[x], c.v[y], n, 0)
  IN IF r.fault # "none"
     THEN Panic([c EXCEPT !.screen = r.acc.screen], r.fault)
     ELSE Ok([c EXCEPT !.screen = r.acc.screen, !.v[15] = BoolToU8(r.acc.flipped)], 22734)

\* main's match on the nibbles of op: arm for arm the text of Chip8::execute, but Dxyn
MainExecute(c, o, rnd) ==
  IF Nib1(o) = 13
  THEN MainDrwVxVyN(c, Nib2(o), Nib3(o), Nib4(o))
  ELSE Execute(c, o, rnd)

\* main's loop body after the poll: fetch (the text of Chip8::fetch), then the match
MainTickResult(c, rnd) ==
  LET f == Fetch(c)
  IN IF f.fault # "none" THEN Panic(f.c, f.fault) ELSE MainExecute(f.c, f.op, rnd)

\* timers() with wrapping_sub in place of saturating_sub
TimersResult_Wrapping(c) ==
  [c EXCEPT !.dt = (c.dt + 255) % 256, !.st = (c.st + 255) % 256]

\* Chip8::timers
TimersResult(c) ==
  [c EXCEPT !.dt = SaturatingSub(c.dt, 1), !.st = SaturatingSub(c.st, 1)]

\* load copying the bytes that fit before it panics on a game that is too long
LoadResult_CopyThenPanic(c, game) ==
  LET copied == [c EXCEPT !.mem = [a \in DOMAIN c.mem |->
                                     IF a >= START_ADDR /\ a < START_ADDR + Len(game)
                                     THEN game[a - START_ADDR + 1] ELSE c.mem[a]]]
  IN IF START_ADDR + Len(game) > MEMORY_SIZE
     THEN Panic(copied, "index out of bounds")
     ELSE Ok(copied, 0)

\* Chip8::load: mem[START_ADDR..START_ADDR + game.len()].copy_from_slice(game)
LoadResult(c, game) ==
  IF START_ADDR + Len(game) > MEMORY_SIZE
  THEN Panic(c, "index out of bounds")
  ELSE Ok([c EXCEPT !.mem = [a \in DOMAIN c.mem |->
                               IF a >= START_ADDR /\ a < START_ADDR + Len(game)
                               THEN game[a - START_ADDR + 1] ELSE c.mem[a]]], 0)

\* -------------------------------------------------------------------- games
\* one instruction word, as its two bytes
Ins(a, b, c, d) == << a * 16 + b, c * 16 + d >>

\* register pairs the games use for x and y
RegPairs == { <<0, 1>>, <<2, 2>>, <<15, 1>>, <<0, 15>> }

\* Vx and Vy from the random source, then one register-register instruction
RegGame(n1, x, y, k) ==
  Ins(12, x, 15, 15) \o Ins(12, y, 15, 15) \o Ins(n1, x, y, k)

RegGames ==
  { RegGame(8, xy[1], xy[2], k) : xy \in RegPairs, k \in 0..15 }
    \cup { RegGame(n1, xy[1], xy[2], k) :
             n1 \in {5, 9}, xy \in { <<0, 1>>, <<15, 15>> }, k \in {0, 1, 15} }

\* Vx in 0..63 and Vy in 0..31 from the random source; the sprite FF 81 3C at 0x212;
\* the same draw twice, then once more one column to the right
DrawGame(x, y, n) ==
  Ins(12, x, 3, 15) \o Ins(12, y, 1, 15) \o Ins(10, 2, 1, 2)
    \o Ins(13, x, y, n) \o Ins(13, x, y, n) \o Ins(13, x, y, n)
    \o Ins(7, x, 0, 1) \o Ins(13, x, y, n) \o Ins(1, 2, 1, 0)
    \o << 255, 129, 60 >>

DrawGames ==
  { DrawGame(0, 1, n) : n \in 0..MaxRows }
    \cup { DrawGame(2, 2, 2), DrawGame(15, 1, 1), DrawGame(0, 15, 1) }

\* wait for a key into Vx, then go on
KeyGame(x) == Ins(15, x, 0, 10) \o Ins(6, 14, 0, 1) \o Ins(1, 2, 0, 4)

KeyGames == { KeyGame(x) : x \in {0, 15} }

\* V0 and V1 from the random source, V2 and V3 set; V0..Vx stored at 0x300,
\* the registers zeroed, and V0..Vx loaded back from 0x300
DumpGame(x) ==
  Ins(12, 0, 15, 15) \o Ins(12, 1, 15, 15) \o Ins(6, 2, 0, 7) \o Ins(6, 3, 0, 9)
    \o Ins(10, 3, 0, 0) \o Ins(15, x, 5, 5)
    \o Ins(6, 0, 0, 0) \o Ins(6, 1, 0, 0) \o Ins(6, 2, 0, 0) \o Ins(6, 3, 0, 0)
    \o Ins(10, 3, 0, 0) \o Ins(15, x, 6, 5) \o Ins(1, 2, 1, 8)

DumpGames == { DumpGame(x) : x \in {0, 1, 3, 15} }

\* games of one or two instruction words
RawGames ==
  { Ins(0, 0, 14, 14), Ins(0, 0, 14, 0), Ins(0, 0, 14, 1), Ins(0, 1, 14, 0),
    Ins(14, 0, 9, 15), Ins(14, 0, 10, 0), Ins(15, 0, 0, 0), Ins(15, 1, 15, 15),
    Ins(15, 0, 7, 5),
    Ins(2, 2, 0, 4) \o Ins(1, 2, 0, 2) \o Ins(0, 0, 14, 14),
    Ins(10, 15, 15, 15) \o Ins(15, 1, 5, 5),
    Ins(10, 15, 15, 15) \o Ins(15, 1, 6, 5) }

\* V0 into both timers, then the delay timer read back in a loop
TimerGame ==
  Ins(6, 0, 0, 2) \o Ins(15, 0, 1, 5) \o Ins(15, 0, 1, 8) \o Ins(15, 1, 0, 7)
    \o Ins(1, 2, 0, 6)

\* Vx from the random source; the index register moved by it from 0xFFF, then
\* pointed at the font glyph of Vx
FontGame ==
  Ins(12, 0, 15, 15) \o Ins(10, 15, 15, 15) \o Ins(15, 0, 1, 14) \o Ins(15, 0, 2, 9)

\* Vx from the random source under a mask, then a skip on the key Vx
KeySkipGame(m1, m2, y, k) ==
  Ins(12, 0, m1, m2) \o Ins(14, 0, y, k) \o Ins(6, 14, 0, 1)

KeySkipGames ==
  { KeySkipGame(m[1], m[2], yk[1], yk[2]) :
      m \in { <<0, 3>>, <<15, 15>> }, yk \in { <<9, 14>>, <<10, 1>> } }

\* Vx from the random source under a mask, then its decimal digits stored at 0x300
BcdGame(m1, m2) == Ins(12, 0, m1, m2) \o Ins(10, 3, 0, 0) \o Ins(15, 0, 3, 3)

BcdGames == { BcdGame(15, 15), BcdGame(7, 11) }

\* V0 <- 5, V1 <- 3, V0 += V1
SumGame == Ins(6, 0, 0, 5) \o Ins(6, 1, 0, 3) \o Ins(8, 0, 1, 4)

\* Vx from the random source, then a skip on Vx against the immediate 01
SkipGame(n1) == Ins(12, 0, 15, 15) \o Ins(n1, 0, 0, 1) \o Ins(6, 14, 0, 1) \o Ins(6, 14, 0, 2)

SkipGames == { SkipGame(3), SkipGame(4) }

\* jumps, some to odd addresses and to the last bytes of memory
JumpGames ==
  { Ins(12, 0, 15, 15) \o Ins(11, 2, 0, 4),
    Ins(1, 2, 0, 3),
    Ins(1, 15, 15, 15),
    Ins(1, 2, 0, 3) \o << 0 >> \o Ins(2, 2, 0, 8) \o Ins(6, 0, 0, 7) \o << 0 >>
      \o Ins(0, 0, 14, 14),
    Ins(10, 15, 15, 14) \o Ins(15, 0, 3, 3),
    Ins(10, 15, 15, 15) \o Ins(13, 0, 0, 2) }

\* a game that fills memory to its last byte, and one that is a byte too long
FullGame ==
  [i \in 1..(MEMORY_SIZE - START_ADDR) |->
     IF i <= 2 THEN Ins(1, 15, 15, 14)[i]
     ELSE IF i = MEMORY_SIZE - START_ADDR THEN 255 ELSE 0]

LongGame == [i \in 1..(MEMORY_SIZE - START_ADDR + 1) |-> 255]

\* VF = FF, Vx = CA, Vy = 53, then 8xyk
BitGame(x, y, k) ==
  Ins(6, 15, 15, 15) \o Ins(6, x, 12, 10) \o Ins(6, y, 5, 3) \o Ins(8, x, y, k)

BitGames ==
  { BitGame(xy[1], xy[2], k) :
      xy \in { <<1, 2>>, <<15, 2>>, <<1, 15>>, <<3, 3>> }, k \in 1..3 }

\* call 0x204 and return to 0x202; V0 = FF then BFFF; 6000 in the last word of memory
PcGames ==
  { Ins(2, 2, 0, 4) \o Ins(1, 2, 0, 2) \o Ins(0, 0, 14, 14),
    Ins(12, 0, 15, 15) \o Ins(11, 15, 15, 15),
    [i \in 1..(MEMORY_SIZE - START_ADDR) |->
       IF i <= 2 THEN Ins(1, 15, 15, 14)[i]
       ELSE IF i = MEMORY_SIZE - START_ADDR - 1 THEN 96 ELSE 0] }

\* 0x200 call 0x206; 0x202 jp 0x202; 0x206 call 0x20A; 0x208 ret; 0x20A ret
NestGame ==
  Ins(2, 2, 0, 6) \o Ins(1, 2, 0, 2) \o Ins(0, 0, 0, 0)
    \o Ins(2, 2, 0, 10) \o Ins(0, 0, 14, 14) \o Ins(0, 0, 14, 14)

\* both timers set to 3, the glyph 0 drawn at (3, 0), the screen cleared
ClsGame ==
  Ins(6, 0, 0, 3) \o Ins(15, 0, 1, 8) \o Ins(15, 0, 1, 5) \o Ins(10, 0, 0, 0)
    \o Ins(13, 0, 1, 5) \o Ins(0, 0, 14, 0) \o Ins(1, 2, 0, 12)

Games ==
  {NestGame, ClsGame} \cup PcGames \cup BitGames \cup RegGames \cup DrawGames \cup KeyGames \cup DumpGames \cup RawGames \cup {TimerGame}
    \cup {FontGame, SumGame, FullGame, LongGame}
    \cup KeySkipGames \cup BcdGames \cup SkipGames \cup JumpGames

\* ------------------------------------------------------------------ actions
\* what a claim about the last instruction reads of the machine before it
Snapshot(c) == [v |-> c.v, ir |-> c.ir, pc |-> c.pc, stack |-> c.stack, screen |-> c.screen]

\* the machine c becomes the state
Becomes(c) ==
  /\ mem' = c.mem
  /\ v' = c.v
  /\ ir' = c.ir
  /\ pc' = c.pc
  /\ dt' = c.dt
  /\ st' = c.st
  /\ stack' = c.stack
  /\ screen' = c.screen
  /\ keypad' = c.keypad

\* Chip8::new(); no instruction fetched yet (op = -1)
Init ==
  /\ mem = New.mem
  /\ v = New.v
  /\ ir = New.ir
  /\ pc = New.pc
  /\ dt = New.dt
  /\ st = New.st
  /\ stack = New.stack
  /\ screen = New.screen
  /\ keypad = New.keypad
  /\ phase = "new"
  /\ op = -1
  /\ ret = 0
  /\ fault = "none"
  /\ prev = Snapshot(New)
  /\ frame_time = 0
  /\ at = "loop"
  /\ frames = 0
  /\ ticks = 0

\* chip8.load(game), once, before the first tick
Load(game) ==
  /\ phase = "new"
  /\ LET r == LoadResult(Self, game)
     IN /\ Becomes(r.c)
        /\ fault' = r.fault
        /\ phase' = IF r.fault = "none" THEN "run" ELSE "panic"
  /\ UNCHANGED << op, ret, prev >>

\* the values the random source can give the next instruction
RndChoices == IF pc < MEMORY_SIZE /\ Nib1(mem[pc] * 256) = 12 THEN RandBytes ELSE {0}

\* chip8.tick(): op is the word fetched, ret the cost returned, prev the machine before
Tick ==
  /\ phase = "run"
  /\ \E rnd \in RndChoices :
       LET r == TickResult(Self, rnd)
       IN /\ Becomes(r.c)
          /\ ret' = r.cost
          /\ fault' = r.fault
          /\ phase' = IF r.fault = "none" THEN "run" ELSE "panic"
  /\ op' = Fetch(Self).op
  /\ prev' = Snapshot(Self)

\* chip8.timers()
Timers ==
  /\ phase = "run"
  /\ Becomes(TimersResult(Self))
  /\ UNCHANGED << phase, op, ret, fault, prev >>

\* main's event loop: keypad[k] = true
KeyDown(k) ==
  /\ phase = "run"
  /\ ~keypad[k]
  /\ Cardinality({i \in DOMAIN keypad : keypad[i]}) < MaxHeld
  /\ keypad' = [keypad EXCEPT ![k] = TRUE]
  /\ UNCHANGED << mem, v, ir, pc, dt, st, stack, screen, phase, op, ret, fault, prev >>

\* main's event loop: keypad[k] = false
KeyUp(k) ==
  /\ phase = "run"
  /\ keypad[k]
  /\ keypad' = [keypad EXCEPT ![k] = FALSE]
  /\ UNCHANGED << mem, v, ir, pc, dt, st, stack, screen, phase, op, ret, fault, prev >>

\* the interpreter of chip8.rs driven in any order; main's loop is not running
Next ==
  \/ \E game \in Games : Load(game) /\ UNCHANGED sched
  \/ Tick /\ UNCHANGED sched
  \/ Timers /\ UNCHANGED sched
  \/ \E k \in Keys : KeyDown(k) /\ UNCHANGED sched
  \/ \E k \in Keys : KeyUp(k) /\ UNCHANGED sched

Spec == Init /\ [][Next]_vars

\* ------------------------------------------------------- main's frame loop
\* FRAME_TIME.as_micros(): Duration::new(0, 1_000_000_000 / FRAME_RATE) in microseconds
FRAME_TIME == (1000000000 \div FRAME_RATE) \div 1000

\* a key wait that ends in an unimplemented opcode: F00A 0000
WaitGame == Ins(15, 0, 0, 10) \o Ins(0, 0, 0, 0)

\* the glyph 0 drawn again and again: D005 1200
DrawLoopGame == Ins(13, 0, 0, 5) \o Ins(1, 2, 0, 0)

\* the games main is started with
FrameGames == {WaitGame, DrawLoopGame, TimerGame}

\* main's loop body after the poll: op is the word fetched, ret the tick_time
MainTick ==
  /\ phase = "run"
  /\ \E rnd \in RndChoices :
       LET r == MainTickResult(Self, rnd)
       IN /\ Becomes(r.c)
          /\ ret' = r.cost
          /\ fault' = r.fault
          /\ phase' = IF r.fault = "none" THEN "run" ELSE "panic"
  /\ op' = Fetch(Self).op
  /\ prev' = Snapshot(Self)

\* mem[START_ADDR..(START_ADDR + game.len())].copy_from_slice(&game), before the loop
FrameLoad(game) == Load(game) /\ UNCHANGED sched

\* loop { frame_time += FRAME_TIME.as_micros() as isize; ...
FrameBegin ==
  /\ phase = "run"
  /\ at = "loop"
  /\ frames < MaxFrames
  /\ frame_time' = frame_time + FRAME_TIME
  /\ at' = "while"
  /\ frames' = frames + 1
  /\ UNCHANGED << mem, v, ir, pc, dt, st, stack, screen, keypad,
                  phase, op, ret, fault, prev, ticks >>

\* while frame_time > 0 { for event in event_pump.poll_iter(): KeyDown
FramePollDown(k) == at = "while" /\ frame_time > 0 /\ KeyDown(k) /\ UNCHANGED sched

\* while frame_time > 0 { for event in event_pump.poll_iter(): KeyUp
FramePollUp(k) == at = "while" /\ frame_time > 0 /\ KeyUp(k) /\ UNCHANGED sched

\* ... fetch; let tick_time = match ...; frame_time -= tick_time }
FrameStep ==
  /\ at = "while"
  /\ frame_time > 0
  /\ MainTick
  /\ frame_time' = frame_time - ret'
  /\ UNCHANGED << at, frames, ticks >>

\* the while loop left: dt = dt.saturating_sub(1); st = st.saturating_sub(1); the frame
\* is presented and the loop starts over
FrameTimers ==
  /\ at = "while"
  /\ frame_time <= 0
  /\ Timers
  /\ at' = "loop"
  /\ ticks' = ticks + 1
  /\ UNCHANGED << frame_time, frames >>

FrameNext ==
  \/ \E game \in FrameGames : FrameLoad(game)
  \/ FrameBegin
  \/ \E k \in Keys : FramePollDown(k)
  \/ \E k \in Keys : FramePollUp(k)
  \/ FrameStep
  \/ FrameTimers

\* the while loop is at its body: FrameStep is enabled
StepEnabled == phase = "run" /\ at = "while" /\ frame_time > 0

\* weak fairness of FrameStep, with ENABLED <<FrameStep>>_vars written as StepEnabled
StepFair == []<>~StepEnabled \/ []<><<FrameStep>>_vars

\* the loop is sequential code: an enabled step or timer tick is taken
FrameSpec == Init /\ [][FrameNext]_vars /\ WF_vars(FrameTimers) /\ StepFair

\* ------------------------------------------------------------------- claims
\* the fields of the last instruction word fetched
X == Nib2(op)

Y == Nib3(op)

N == Nib4(op)

\* the last tick fetched a word matching (n1, _, _, _) and returned
Did(n1) == op >= 0 /\ Nib1(op) = n1 /\ fault = "none"

\* the last tick fetched a word matching (n1, _, _, k) and returned
Did4(n1, k) == Did(n1) /\ N = k

\* the last tick fetched a word matching (n1, _, y, k) and returned
Did34(n1, y, k) == Did4(n1, k) /\ Y = y

Cells == 0..(SCREEN_WIDTH * SCREEN_HEIGHT - 1)

\* the sprite bit of row r, column c of the last Dxyn (memory is not written by it)
SpriteBit(r, c) == Bit(mem[prev.ir + r], 7 - c)

\* cell i is the wrapped target of a set sprite bit of the last Dxyn
WrapTargeted(i) ==
  \E r \in 0..(N - 1), c \in 0..7 :
    /\ SpriteBit(r, c) = 1
    /\ i = (((prev.v[X] % SCREEN_WIDTH) + c) % SCREEN_WIDTH)
           + SCREEN_WIDTH * (((prev.v[Y] % SCREEN_HEIGHT) + r) % SCREEN_HEIGHT)

\* C1: Dxyn toggles exactly the cells at column ((Vx mod 64) + c) mod 64 and row
\* ((Vy mod 32) + r) mod 32 of its set sprite bits: no set bit is clipped, none lands
\* in another row.
C1_DrawWraps ==
  Did(13) => \A i \in Cells : screen[i] = (prev.screen[i] # WrapTargeted(i))

\* C2: 00EE executed while no 2nnn has pushed a return address (the stack is as
\* Chip8::new made it) is a fatal fault, and pc is not loaded from a stack slot.
C2_RetOnEmptyStackFaults ==
  (op = 238 /\ prev.stack = New.stack) => fault # "none"

\* the opcode patterns of the instruction set
Listed(o) ==
  LET n1 == Nib1(o)
      y  == Nib3(o)
      k  == Nib4(o)
  IN \/ o = 224
     \/ o = 238
     \/ n1 \in {1, 2, 3, 4, 6, 7, 10, 11, 12, 13}
     \/ n1 \in {5, 9} /\ k = 0
     \/ n1 = 8 /\ k \in (0..7) \cup {14}
     \/ n1 = 14 /\ << y, k >> \in { <<9, 14>>, <<10, 1>> }
     \/ n1 = 15 /\ << y, k >> \in { <<0, 7>>, <<0, 10>>, <<1, 5>>, <<1, 8>>, <<1, 14>>,
                                    <<2, 9>>, <<3, 3>>, <<5, 5>>, <<6, 5>> }

\* C3: a fetched word matching none of the opcode patterns is a fatal
\* unsupported-opcode fault; 0x5FFF is not decoded as skip-if-equal.
C3_UnlistedOpcodeFaults ==
  (op >= 0 /\ ~Listed(op)) => fault = "unimplemented opcode"

\* the last tick fetched a word matching (8, _, _, k), returned or not
Fetched8(k) == op >= 0 /\ Nib1(op) = 8 /\ N = k

\* C4: after 8xy4, VF = 1 iff old Vx + old Vy >= 256, else 0; for x # F the new Vx is
\* (old Vx + old Vy) mod 256; the instruction never faults.
C4_AddCarry ==
  /\ Fetched8(4) => fault = "none"
  /\ Did4(8, 4) =>
       /\ v[15] = (IF prev.v[X] + prev.v[Y] >= 256 THEN 1 ELSE 0)
       /\ X # 15 => v[X] = (prev.v[X] + prev.v[Y]) % 256

\* 8xy4 has run with x = F and a sum that overflows 8 bits
C4_Witness ==
  /\ Did4(8, 4)
  /\ X = 15
  /\ Y # 15
  /\ prev.v[X] + prev.v[Y] >= 256
  /\ v[15] = 1

\* C5: 8xy5 sets VF = 1 iff old Vx >= old Vy and Vx = (old Vx - old Vy) mod 256;
\* 8xy7 sets VF = 1 iff old Vy >= old Vx and Vx = (old Vy - old Vx) mod 256 (Vx for
\* x # F); neither faults.
C5_SubBorrow ==
  /\ (Fetched8(5) \/ Fetched8(7)) => fault = "none"
  /\ Did4(8, 5) =>
       /\ v[15] = (IF prev.v[X] >= prev.v[Y] THEN 1 ELSE 0)
       /\ X # 15 => v[X] = (prev.v[X] - prev.v[Y]) % 256
  /\ Did4(8, 7) =>
       /\ v[15] = (IF prev.v[Y] >= prev.v[X] THEN 1 ELSE 0)
       /\ X # 15 => v[X] = (prev.v[Y] - prev.v[X]) % 256

\* 8xy5 has run on two equal non-zero values of different registers: no borrow
C5_Witness ==
  /\ Did4(8, 5)
  /\ X # Y
  /\ X # 15
  /\ prev.v[X] = prev.v[Y]
  /\ prev.v[X] > 0
  /\ v[X] = 0
  /\ v[15] = 1

\* C6: 8xy6 sets VF to bit 0 of old Vy and Vx to old Vy >> 1; 8xyE sets VF to bit 7 of
\* old Vy and Vx to (old Vy << 1) mod 256 (Vx for x # F); old Vx has no influence.
C6_ShiftFromVy ==
  /\ Did4(8, 6) =>
       /\ v[15] = prev.v[Y] % 2
       /\ X # 15 => v[X] = prev.v[Y] \div 2
  /\ Did4(8, 14) =>
       /\ v[15] = prev.v[Y] \div 128
       /\ X # 15 => v[X] = (prev.v[Y] * 2) % 256

\* 8xy6 has run with x # y and old Vx different from old Vy >> 1 and from old Vy
C6_Witness ==
  /\ Did4(8, 6)
  /\ X # Y
  /\ X # 15
  /\ prev.v[X] = 255
  /\ prev.v[Y] = 1
  /\ v[X] = 0
  /\ v[15] = 1

\* C7: after Dxyn, VF = 1 iff a cell that was true before the draw is false after
\* it, else 0; every cell that is not the target of a set sprite bit is unchanged.
C7_CollisionFlag ==
  Did(13) =>
    /\ v[15] = (IF \E i \in Cells : prev.screen[i] /\ ~screen[i] THEN 1 ELSE 0)
    /\ \A i \in Cells : ~WrapTargeted(i) => screen[i] = prev.screen[i]

\* the tick about to be taken repeats the Dxyn word of the last tick, which returned,
\* with Vx, Vy and the index register as they were before that tick
SameDrawAgain ==
  /\ Tick
  /\ Did(13)
  /\ Fetch(Self).op = op
  /\ v[X] = prev.v[X]
  /\ v[Y] = prev.v[Y]
  /\ ir = prev.ir

\* C8 as stated: the same Dxyn twice in a row leaves the screen as it was before the
\* first draw, and the second draw sets VF = 1.
C8_SecondDrawSetsVF ==
  [][SameDrawAgain => (fault' = "none" /\ screen' = prev.screen /\ v'[15] = 1)]_vars

\* C8 as amended: the same Dxyn twice in a row leaves the screen as it was before the
\* first draw, and the second draw sets VF = 1 iff the first draw turned a cell on.
C8_SelfXor ==
  [][SameDrawAgain =>
       /\ fault' = "none"
       /\ screen' = prev.screen
       /\ v'[15] = (IF \E i \in Cells : ~prev.screen[i] /\ screen[i] THEN 1 ELSE 0)]_vars

\* a second draw of a non-empty sprite has cleared the cells the first one had set on
\* an empty screen
C8_Witness ==
  /\ Did(13)
  /\ N > 0
  /\ pc = START_ADDR + 10
  /\ \E i \in Cells : prev.screen[i]
  /\ \A i \in Cells : ~screen[i]
  /\ v[15] = 1

\* the tick about to be taken fetches an Fx0A word
NextIsLdVxK ==
  LET o == Fetch(Self).op
  IN o >= 0 /\ Nib1(o) = 15 /\ Nib3(o) = 0 /\ Nib4(o) = 10

\* C9: a tick of Fx0A at address a with no key down leaves pc = a and changes no
\* register, memory, stack or screen; with a key down it sets Vx to the lowest key
\* down and pc to a + 2; both return the cost of the instruction.
C9_BusyWait ==
  [][(Tick /\ NextIsLdVxK) =>
       LET x    == Nib2(Fetch(Self).op)
           down == {i \in DOMAIN keypad : keypad[i]}
       IN /\ fault' = "none"
          /\ ret' = 100
          /\ IF down = {}
             THEN /\ pc' = pc
                  /\ << v, ir, mem, stack, screen, dt, st >>
                       = << v', ir', mem', stack', screen', dt', st' >>
             ELSE /\ pc' = pc + 2
                  /\ \A k \in down : v'[x] <= k
                  /\ v'[x] \in down
                  /\ \A j \in DOMAIN v : j # x => v'[j] = v[j]]_vars

\* Fx0A has found the lower of two keys held down and execution went on
C9_Witness ==
  /\ op >= 0
  /\ Nib1(op) = 15 /\ Y = 0 /\ N = 10
  /\ fault = "none"
  /\ pc = prev.pc + 2
  /\ keypad[3] /\ keypad[10]
  /\ v[X] = 3

\* the last tick fetched a word matching (F, _, y, k), returned or not
FetchedF(y, k) == op >= 0 /\ Nib1(op) = 15 /\ Y = y /\ N = k

\* C10: Fx55 with I + x inside memory stores V0..Vx at memory[I..I+x]; Fx65 with the
\* index register back at I loads exactly those values into V0..Vx and leaves the
\* registers above x alone; each leaves the index register 1 greater than before it.
C10_DumpLoadRoundTrip ==
  /\ (FetchedF(5, 5) /\ prev.ir + X < MEMORY_SIZE) =>
       /\ fault = "none"
       /\ \A k \in 0..X : mem[prev.ir + k] = prev.v[k]
       /\ ir = prev.ir + 1
       /\ v = prev.v
       /\ LET zeroed == [Self EXCEPT !.ir = prev.ir, !.v = [i \in DOMAIN v |-> 0]]
              back   == LdVxIr(zeroed, X)
          IN /\ back.fault = "none"
             /\ \A k \in 0..X : back.c.v[k] = prev.v[k]
             /\ \A k \in (X + 1)..(REGISTER_COUNT - 1) : back.c.v[k] = 0
             /\ back.c.ir = prev.ir + 1
  /\ (FetchedF(6, 5) /\ prev.ir + X < MEMORY_SIZE) =>
       /\ fault = "none"
       /\ \A k \in 0..X : v[k] = mem[prev.ir + k]
       /\ \A k \in (X + 1)..(REGISTER_COUNT - 1) : v[k] = prev.v[k]
       /\ ir = prev.ir + 1

\* Fx65 with x = 1 has loaded back into zeroed registers the two values, not both
\* zero, that Fx55 stored at 0x300, and the index register is 0x301
C10_Witness ==
  /\ FetchedF(6, 5)
  /\ fault = "none"
  /\ X = 1
  /\ prev.ir = 768
  /\ ir = 769
  /\ prev.v[0] = 0 /\ prev.v[1] = 0
  /\ v[0] = 255 /\ v[1] = 1
  /\ mem[768] = 255 /\ mem[769] = 1
  /\ v[2] = 0

\* the 5 bytes of the font glyph of hex digit d
Glyph(d) == [k \in 0..4 |-> FONT_SPRITES[5 * d + k + 1]]

\* C11: Fx29 sets the index register to 5 * (Vx mod 16) for every 8-bit Vx, and with
\* low memory untouched memory[I..I+5) holds the glyph of the low nibble of Vx.
C11_FontGlyphOfLowNibble ==
  (FetchedF(2, 9) /\ fault = "none") =>
    /\ ir = 5 * (prev.v[X] % 16)
    /\ (\A a \in 0..(Len(FONT_SPRITES) - 1) : mem[a] = New.mem[a])
         => \A k \in 0..4 : mem[ir + k] = Glyph(prev.v[X] % 16)[k]

\* a tick has ended in a panic (not the load)
TickFaulted == phase = "panic" /\ (op >= 0 \/ prev.pc + 1 >= MEMORY_SIZE)

\* the last tick had to read or write memory outside 0..MEMORY_SIZE-1
MemoryOutOfRange ==
  \/ op = -1 /\ prev.pc + 1 >= MEMORY_SIZE
  \/ op >= 0 /\ Nib1(op) = 13 /\ N > 0 /\ prev.ir + N - 1 >= MEMORY_SIZE
  \/ FetchedF(3, 3) /\ prev.ir + 2 >= MEMORY_SIZE
  \/ (FetchedF(5, 5) \/ FetchedF(6, 5)) /\ prev.ir + X >= MEMORY_SIZE

\* C12: a tick ends in a fatal fault only on an unsupported opcode, on 00EE with an
\* empty call stack, or on a memory access outside 0..4095; every other instruction
\* (Ex9E and ExA1 with any Vx included) completes.
C12_FaultClasses ==
  TickFaulted =>
    \/ op >= 0 /\ ~Listed(op)
    \/ op = 238 /\ Len(prev.stack) = 0
    \/ MemoryOutOfRange

\* the word the tick about to be taken fetches (-1: none)
NextOp == Fetch(Self).op

\* the tick about to be taken fetches a word matching (F, _, y, k)
NextIsF(y, k) == NextOp >= 0 /\ Nib1(NextOp) = 15 /\ Nib3(NextOp) = y /\ Nib4(NextOp) = k

\* C13: timers() replaces dt by max(dt - 1, 0) and st by max(st - 1, 0) and changes
\* nothing else; Fx15 sets dt to Vx, no other instruction changes dt, and Fx07 reads
\* dt into Vx: so m timers() calls after Fx15 with Vx = k make Fx07 read max(k - m, 0),
\* and a timer at 0 stays at 0.
C13_TimersFloor ==
  [][/\ Timers =>
          /\ dt' = (IF dt >= 1 THEN dt - 1 ELSE 0)
          /\ st' = (IF st >= 1 THEN st - 1 ELSE 0)
          /\ dt' \in 0..dt
          /\ UNCHANGED << mem, v, ir, pc, stack, screen, keypad >>
     /\ (Tick /\ NextIsF(1, 5)) => (fault' = "none" /\ dt' = v[Nib2(NextOp)])
     /\ (Tick /\ ~NextIsF(1, 5)) => dt' = dt
     /\ (Tick /\ NextIsF(0, 7)) => (fault' = "none" /\ v'[Nib2(NextOp)] = dt)]_vars

\* Fx07 has read 1 after Fx15 set the delay timer to 2 and one timers() call, and a
\* later timers() call has taken the timer to 0
C13_Witness ==
  /\ FetchedF(0, 7)
  /\ fault = "none"
  /\ v[0] = 2
  /\ v[X] = 1
  /\ dt = 0
  /\ st = 0

\* C14: Fx33 with I + 2 <= 4095 stores Vx div 100, (Vx div 10) mod 10 and Vx mod 10 at
\* memory[I], memory[I+1], memory[I+2]; the index register, the registers and every
\* other memory cell are unchanged.
C14_BcdDigits ==
  [][(Tick /\ NextIsF(3, 3) /\ ir + 2 <= MEMORY_SIZE - 1) =>
       LET vx == v[Nib2(NextOp)]
       IN /\ fault' = "none"
          /\ mem' = [a \in DOMAIN mem |->
                       IF a = ir THEN vx \div 100
                       ELSE IF a = ir + 1 THEN (vx \div 10) % 10
                       ELSE IF a = ir + 2 THEN vx % 10
                       ELSE mem[a]]
          /\ ir' = ir
          /\ v' = v]_vars

\* Fx33 has stored the digits 2, 5, 5 of Vx = 255
C14_Witness ==
  /\ FetchedF(3, 3)
  /\ fault = "none"
  /\ prev.v[X] = 255
  /\ mem[prev.ir] = 2
  /\ mem[prev.ir + 1] = 5
  /\ mem[prev.ir + 2] = 5

\* memory holds SumGame where load put it
SumLoaded == \A i \in 1..Len(SumGame) : mem[START_ADDR + i - 1] = SumGame[i]

\* word o is an instruction that leaves pc as the fetch left it
NonBranching(o) ==
  /\ o >= 0
  /\ Listed(o)
  /\ \/ o = 224
     \/ Nib1(o) \in {6, 7, 8, 10, 12, 13}
     \/ Nib1(o) = 15 /\ ~(Nib3(o) = 0 /\ Nib4(o) = 10)

\* C15: a tick fetches the big-endian word at pc and a non-branching instruction
\* leaves pc 2 greater; so after load the k-th tick of a non-branching program fetches
\* the word at 0x200 + 2(k-1) and leaves pc = 0x200 + 2k, and 6005 6103 8014 stepped
\* three times gives V0 = 8, V1 = 3, VF = 0, pc = 0x206.
C15_SequentialExecution ==
  [][Tick =>
       /\ pc + 1 < MEMORY_SIZE => op' = 256 * mem[pc] + mem[pc + 1]
       /\ (NonBranching(NextOp) /\ fault' = "none") => pc' = pc + 2
       /\ SumLoaded =>
            /\ pc = START_ADDR     => (op' = 24581 /\ pc' = START_ADDR + 2 /\ v'[0] = 5)
            /\ pc = START_ADDR + 2 => (op' = 24835 /\ pc' = START_ADDR + 4 /\ v'[1] = 3)
            /\ pc = START_ADDR + 4 =>
                 /\ op' = 32788
                 /\ pc' = START_ADDR + 6
                 /\ v'[0] = 8 /\ v'[1] = 3 /\ v'[15] = 0]_vars

\* 6005 6103 8014 has been stepped three times
C15_Witness ==
  /\ SumLoaded
  /\ op = 32788
  /\ fault = "none"
  /\ pc = START_ADDR + 6
  /\ v[0] = 8 /\ v[1] = 3 /\ v[15] = 0

\* machine d is machine c with game copied to START_ADDR and nothing else changed
Loaded(c, game, d) ==
  d = [c EXCEPT !.mem = [a \in DOMAIN c.mem |->
                           IF a >= START_ADDR /\ a < START_ADDR + Len(game)
                           THEN game[a - START_ADDR + 1] ELSE c.mem[a]]]

\* load(game) on machine c gave machine d and fault f: a game that fits is copied, one
\* that does not is a fault that leaves the machine as it was
LoadFrame(c, game, d, f) ==
  IF START_ADDR + Len(game) <= MEMORY_SIZE
  THEN f = "none" /\ Loaded(c, game, d)
  ELSE f # "none" /\ d = c

\* the machine after the step about to be taken
SelfNext == [mem |-> mem', v |-> v', ir |-> ir', pc |-> pc', dt |-> dt', st |-> st',
             stack |-> stack', screen |-> screen', keypad |-> keypad']

\* the step about to be taken starts memory at START_ADDR with the first bytes of game
StartsWith(game) ==
  \A i \in 1..(IF Len(game) < 8 THEN Len(game) ELSE 8) : mem'[START_ADDR + i - 1] = game[i]

\* C16: load(bytes) with 0x200 + len <= 4096 sets memory[0x200 + i] = bytes[i] and
\* leaves every other memory cell, the registers, index register, pc, stack,
\* timers, screen and keypad unchanged; with 0x200 + len > 4096 it is a fatal fault that
\* writes no byte. Checked of the load each run starts with, and of a load applied to
\* the machine a call or a colliding draw has left.
C16_LoadFrame ==
  [][/\ (phase = "new" /\ phase' # "new") =>
          \E game \in Games :
            /\ START_ADDR + Len(game) <= MEMORY_SIZE => StartsWith(game)
            /\ Load(game)
            /\ LoadFrame(Self, game, SelfNext, fault')
     /\ (op >= 0 /\ (Nib1(op) = 2 \/ (Nib1(op) = 13 /\ v[15] = 1))) =>
          \A game \in {SumGame, LongGame} :
            LET r == LoadResult(Self, game)
            IN  LoadFrame(Self, game, r.c, r.fault)]_vars

\* a game that fills memory to its last byte has been loaded
C16_Witness ==
  /\ phase = "run"
  /\ op = -1
  /\ mem[MEMORY_SIZE - 1] = 255
  /\ mem[START_ADDR] = 31
  /\ mem[0] = 240
  /\ pc = START_ADDR

\* bit i of the value 8xy1 / 8xy2 / 8xy3 gives for the bits a and b
BitwiseOf(k, a, b) ==
  CASE k = 1 -> IF a = 1 \/ b = 1 THEN 1 ELSE 0
    [] k = 2 -> IF a = 1 /\ b = 1 THEN 1 ELSE 0
    [] k = 3 -> IF a # b THEN 1 ELSE 0

\* C17: 8xy1, 8xy2 and 8xy3 never fault and leave VF = 0; for x # F they set Vx to
\* old Vx OR / AND / XOR old Vy, bit by bit; no register other than Vx and VF changes,
\* and nothing but the registers and pc does.
C17_BitwiseResetsVF ==
  \A k \in 1..3 :
    /\ Fetched8(k) => fault = "none"
    /\ Did4(8, k) =>
         /\ v[15] = 0
         /\ X # 15 =>
              /\ v[X] \in 0..255
              /\ \A i \in 0..7 :
                   Bit(v[X], i) = BitwiseOf(k, Bit(prev.v[X], i), Bit(prev.v[Y], i))
         /\ \A r \in 0..(REGISTER_COUNT - 1) : (r # X /\ r # 15) => v[r] = prev.v[r]
         /\ ir = prev.ir /\ stack = prev.stack /\ screen = prev.screen
         /\ pc = prev.pc + 2

\* 8121 has run on VF = FF, V1 = CA, V2 = 53 and left V1 = DB, VF = 0
C17_Witness ==
  /\ Did4(8, 1)
  /\ X = 1 /\ Y = 2
  /\ prev.v[1] = 202 /\ prev.v[2] = 83 /\ prev.v[15] = 255
  /\ v[1] = 219 /\ v[2] = 83 /\ v[15] = 0

\* the position in execute's match of the arm that takes the word o, 0 if none does
Pattern(o) ==
  LET n1 == Nib1(o)
      y  == Nib3(o)
      n  == Nib4(o)
  IN CASE o = 224 -> 1
       [] o = 238 -> 2
       [] n1 \in 1..7 -> n1 + 2
       [] n1 = 8 /\ n \in 0..7 -> 10 + n
       [] n1 = 8 /\ n = 14 -> 18
       [] n1 = 9 /\ n = 0 -> 19
       [] n1 \in 10..13 -> n1 + 10
       [] n1 = 14 /\ y = 9 /\ n = 14 -> 24
       [] n1 = 14 /\ y = 10 /\ n = 1 -> 25
       [] n1 = 15 /\ y = 0 /\ n = 7 -> 26
       [] n1 = 15 /\ y = 0 /\ n = 10 -> 27
       [] n1 = 15 /\ y = 1 /\ n = 5 -> 28
       [] n1 = 15 /\ y = 1 /\ n = 8 -> 29
       [] n1 = 15 /\ y = 1 /\ n = 14 -> 30
       [] n1 = 15 /\ y = 2 /\ n = 9 -> 31
       [] n1 = 15 /\ y = 3 /\ n = 3 -> 32
       [] n1 = 15 /\ y = 5 /\ n = 5 -> 33
       [] n1 = 15 /\ y = 6 /\ n = 5 -> 34
       [] OTHER -> 0

\* the cost each arm of execute ends with, in the order of the match
Costs ==
  << 109, 105, 105, 105, 55, 55, 73, 27, 45,
     200, 200, 200, 200, 200, 200, 200, 200, 200,
     73, 55, 105, 164, 22734, 73, 73,
     45, 100, 45, 45, 86, 91, 927, 605, 605 >>

\* C18: the cost a tick returns is the cost of the arm that matched the fetched word,
\* whatever the registers, memory and keypad hold and whether or not a skip or a
\* busy-wait retry was taken; every cost is positive, and Dxyn costs more than every
\* other instruction.
C18_CostModel ==
  (op >= 0 /\ fault = "none") =>
    /\ Pattern(op) \in 1..Len(Costs)
    /\ ret = Costs[Pattern(op)]
    /\ ret > 0
    /\ \A p \in 1..Len(Costs) : Costs[p] > 0
    /\ \A p \in 1..Len(Costs) : p # Pattern(53248) => Costs[p] < Costs[Pattern(53248)]
    /\ IF Nib1(op) = 13 THEN ret = Costs[Pattern(53248)] ELSE ret < Costs[Pattern(53248)]

\* 3xnn has skipped the next word and cost what it costs when it does not
C18_Witness ==
  /\ Did(3)
  /\ prev.v[X] = nn(op)
  /\ pc = prev.pc + 4
  /\ ret = 55

\* C19: in every state reached from a fresh interpreter the call stack holds at most
\* STACK_SIZE entries.
C19_StackBound == Len(stack) <= STACK_SIZE

\* C20: in every state reached from a fresh interpreter by a loaded program and ticks
\* that return, pc is even and at most MEMORY_SIZE - 2.
C20_PcAlignedInMemory ==
  phase = "run" => (pc % 2 = 0 /\ pc <= MEMORY_SIZE - 2)

\* pc and every return address on the stack are even
Aligned == pc % 2 = 0 /\ \A i \in DOMAIN stack : stack[i] % 2 = 0

\* the tick about to be taken jumps or calls to an odd address
OddJump ==
  /\ NextOp >= 0
  /\ \/ Nib1(NextOp) \in {1, 2} /\ nnn(NextOp) % 2 = 1
     \/ Nib1(NextOp) = 11 /\ (v[0] + nnn(NextOp)) % 2 = 1

\* C20 as the code has it: a tick returns only if it started with pc <= MEMORY_SIZE - 2
\* (started beyond, it is a fatal fault); no tick leaves pc above 0xFFF + 0xFF; and a
\* tick that starts with pc and the stack's return addresses even and is not a jump or
\* call to an odd address leaves them even.
C20_PcAlignmentKept ==
  [][Tick =>
       /\ pc > MEMORY_SIZE - 2 => (fault' # "none" /\ phase' = "panic")
       /\ fault' = "none" =>
            /\ pc <= MEMORY_SIZE - 2
            /\ pc' >= 0 /\ pc' <= (MEMORY_SIZE - 1) + 255
            /\ (Aligned /\ ~OddJump) => Aligned']_vars

\* 00EE has returned to the even address 0x202 that the call 2204 pushed
C20_Witness ==
  /\ op = 238
  /\ fault = "none"
  /\ prev.pc = START_ADDR + 4
  /\ Len(prev.stack) = STACK_SIZE + 1
  /\ prev.stack[STACK_SIZE + 1] = START_ADDR + 2
  /\ pc = START_ADDR + 2
  /\ Aligned

\* memory holds NestGame where load put it
NestLoaded == \A i \in 1..Len(NestGame) : mem[START_ADDR + i - 1] = NestGame[i]

\* C21: 2nnn at address a pushes a + 2 and sets pc = nnn; 00EE pops the entry pushed
\* last into pc; no other instruction touches the stack; so returns match calls in
\* LIFO order and a balanced sequence leaves the stack as it was. The nested calls of
\* NestGame return to 0x208 and then to 0x202 with the stack as new() made it.
C21_CallReturnPairing ==
  /\ (op >= 0 /\ Nib1(op) = 2) =>
       /\ fault = "none"
       /\ stack = Append(prev.stack, prev.pc + 2)
       /\ pc = nnn(op)
  /\ (op = 238 /\ Len(prev.stack) > 0) =>
       /\ fault = "none"
       /\ pc = prev.stack[Len(prev.stack)]
       /\ stack = SubSeq(prev.stack, 1, Len(prev.stack) - 1)
  /\ (op >= 0 /\ fault = "none" /\ Nib1(op) # 2 /\ op # 238) => stack = prev.stack
  /\ NestLoaded =>
       /\ fault = "none"
       /\ pc \in {START_ADDR, START_ADDR + 2, START_ADDR + 6, START_ADDR + 8,
                  START_ADDR + 10}
       /\ pc = START_ADDR      => (op = -1 /\ stack = New.stack)
       /\ pc = START_ADDR + 6  => stack = New.stack \o << START_ADDR + 2 >>
       /\ pc = START_ADDR + 10 => stack = New.stack \o << START_ADDR + 2, START_ADDR + 8 >>
       /\ pc = START_ADDR + 8  => (op = 238 /\ stack = New.stack \o << START_ADDR + 2 >>)
       /\ pc = START_ADDR + 2  => (op \in {238, 4610} /\ stack = New.stack)

\* the outer call of NestGame has returned: pc = 0x202 and the stack is as before it
C21_Witness ==
  /\ NestLoaded
  /\ op = 238
  /\ fault = "none"
  /\ prev.pc = START_ADDR + 8
  /\ prev.stack = New.stack \o << START_ADDR + 2 >>
  /\ pc = START_ADDR + 2
  /\ stack = New.stack

\* C22: a tick never changes the keypad; it changes dt only by Fx15 (to Vx) and st
\* only by Fx18 (to Vx), so it never counts a timer down; and it changes the screen
\* only by 00E0 or Dxyn.
C22_TickFrame ==
  [][Tick =>
       /\ keypad' = keypad
       /\ dt' # dt => (NextIsF(1, 5) /\ dt' = v[Nib2(NextOp)])
       /\ st' # st => (NextIsF(1, 8) /\ st' = v[Nib2(NextOp)])
       /\ (NextIsF(1, 5) /\ fault' = "none") => (dt' = v[Nib2(NextOp)] /\ st' = st)
       /\ (NextIsF(1, 8) /\ fault' = "none") => (st' = v[Nib2(NextOp)] /\ dt' = dt)
       /\ screen' # screen => (NextOp = 224 \/ (NextOp >= 0 /\ Nib1(NextOp) = 13))]_vars

\* 00E0 has cleared a screen with cells on while both timers ran and a key was held
C22_Witness ==
  /\ op = 224
  /\ fault = "none"
  /\ \E i \in Cells : prev.screen[i]
  /\ \A i \in Cells : ~screen[i]
  /\ dt = 3 /\ st = 3
  /\ keypad[3]

\* memory holds TimerGame where load put it
TimerLoaded == \A i \in 1..Len(TimerGame) : mem[START_ADDR + i - 1] = TimerGame[i]

\* the machine apart from the two timers
Untimed == << mem, v, ir, pc, stack, screen, keypad, phase, op, ret, fault, prev >>

\* C23, the counts and the costs: outside the instruction phase as many timer ticks as frames have
\* been made, inside it one fewer; the budget never exceeds one frame and never falls
\* below minus the dearest instruction; TimerGame's timers, set to 2 in the first frame,
\* have lost exactly one per frame since; the step the loop is about to take has a
\* positive cost or is a fatal fault.
FrameCounts ==
  /\ at \in {"loop", "while"}
  /\ ticks = (IF at = "while" THEN frames - 1 ELSE frames)
  /\ frame_time <= FRAME_TIME
  /\ frame_time > 0 - Costs[Pattern(53248)]
  /\ at = "loop" => frame_time <= 0
  /\ (TimerLoaded /\ ticks >= 1) =>
       (dt = (IF ticks >= 2 THEN 0 ELSE 2 - ticks) /\ st = dt)
  /\ StepEnabled =>
       \A rnd \in RndChoices :
         LET r == MainTickResult(Self, rnd)
         IN  r.fault # "none" \/ r.cost > 0

\* C23: in every frame of main's loop the instruction phase ends after finitely many
\* steps, each of which takes a positive cost off the budget (the retry of Fx0A with
\* no key pressed too); once the budget is used up the only thing that happens is the one
\* timer tick, which ends the frame; and between frames no step runs.
C23_FrameScheduler ==
  /\ []FrameCounts
  /\ [][(FrameStep /\ fault' = "none") =>
          /\ frame_time > 0
          /\ ret' > 0
          /\ frame_time' = frame_time - ret'
          /\ frame_time' < frame_time
          /\ ticks' = ticks /\ frames' = frames]_vars
  /\ [][(at = "while" /\ frame_time <= 0) =>
          /\ at' = "loop"
          /\ ticks' = ticks + 1
          /\ frames' = frames
          /\ dt' = SaturatingSub(dt, 1)
          /\ st' = SaturatingSub(st, 1)
          /\ UNCHANGED Untimed]_vars
  /\ [][(at = "loop" /\ phase = "run") =>
          /\ at' = "while"
          /\ frames' = frames + 1
          /\ ticks' = ticks
          /\ UNCHANGED << Untimed, dt, st >>]_vars
  /\ (at = "while") ~> (at = "loop" \/ phase = "panic")

\* two frames have ended, each with its timer tick, while F00A waited for a key that
\* was never pressed
C23_Witness ==
  /\ at = "loop"
  /\ frames = 2
  /\ ticks = 2
  /\ frame_time <= 0
  /\ op = 61450
  /\ fault = "none"
  /\ pc = START_ADDR
  /\ \A k \in DOMAIN keypad : ~keypad[k]

\* C24: from the same machine state and with the same random byte, the inline
\* interpreter of main.rs and Chip8::tick fault in the same cases and, when they return,
\* leave the same machine and give the same cost, Dxyn with a sprite that crosses the
\* right or the bottom edge of the screen included.
C24_StepEquivalent ==
  phase = "run" =>
    \A rnd \in RndChoices :
      LET a == TickResult(Self, rnd)
          b == MainTickResult(Self, rnd)
      IN  /\ a.fault = b.fault
          /\ a.fault = "none" => (a.c = b.c /\ a.cost = b.cost)

====
